---- MODULE Spec2Model ----
(***************************************************************************)
(* Model of latex_merge_changes/core.py: the brace matcher                 *)
(* _find_balanced_braces and the scan-and-rewrite loop                     *)
(* ChangeProcessor.process.                                                *)
(*                                                                         *)
(* A text is a sequence of one-character strings.  Positions are Python    *)
(* positions (0-based); PyAt and PySlice give Python's indexing and        *)
(* slicing, negative indices included.                                     *)
(***************************************************************************)
EXTENDS Integers, Sequences, FiniteSets, TLC

VARIABLES
    text,            \* process: the argument `text`
    processed_text,  \* process: the local buffer
    pc,              \* process: "idle" | "loop" | "returned"
    iters,           \* number of scan-loop iterations that found a match
    calls,           \* number of get_decision_for_change calls
    warnings,        \* number of "Malformed command" diagnostics printed
    last,            \* what the latest loop iteration did
    kept,            \* occurrences (buffer, start) that were decided keep
    arg_text,        \* _find_balanced_braces: argument `text`
    arg_pos,         \* _find_balanced_braces: argument `start_pos`
    result,          \* _find_balanced_braces: the value returned / raised
    phase            \* _find_balanced_braces: "idle" | "called" | "returned"

vars == <<text, processed_text, pc, iters, calls, warnings, last, kept,
          arg_text, arg_pos, result, phase>>

processVars == <<text, processed_text, pc, iters, calls, warnings, last, kept>>
bracesVars == <<arg_text, arg_pos, result, phase>>

----------------------------------------------------------------------------
(* Bounds of the model *)

\* the input of process is a concatenation of at most MaxPieces pieces
MaxPieces == 4
\* the scan loop is followed for at most MaxIters iterations
MaxIters == 5
\* the brace matcher is applied to every text of at most MaxBraceLen characters
MaxBraceLen == 5

----------------------------------------------------------------------------
(* Python strings *)

Max(a, b) == IF a >= b THEN a ELSE b
Min(a, b) == IF a <= b THEN a ELSE b

\* s[i] is defined (no IndexError) for -len(s) <= i < len(s)
PyInRange(s, i) == -Len(s) <= i /\ i < Len(s)

\* s[i], with Python's negative indices counting from the end
PyAt(s, i) == IF i < 0 THEN s[i + Len(s) + 1] ELSE s[i + 1]

\* a slice bound as Python clamps it
PyClamp(s, i) == IF i < 0 THEN Max(i + Len(s), 0) ELSE Min(i, Len(s))

\* s[a:b]
PySlice(s, a, b) ==
    LET lo == PyClamp(s, a)
        hi == PyClamp(s, b)
    IN  IF lo >= hi THEN <<>> ELSE SubSeq(s, lo + 1, hi)

\* s[a:]
PyFrom(s, a) == PySlice(s, a, Len(s))

----------------------------------------------------------------------------
(* _find_balanced_braces *)

\* `return None, -1`
BraceFailure == [kind |-> "None", content |-> <<>>, next |-> -1]

\* text[start_pos] with start_pos < -len(text)
BraceIndexError == [kind |-> "IndexError", content |-> <<>>, next |-> -1]

\* the loop `for i in range(start_pos, len(text))`, entered at index i with
\* `balance` the counter before text[i] is read
RECURSIVE BraceLoop(_, _, _, _)
BraceLoop(s, match_start, i, balance) ==
    IF i >= Len(s) THEN BraceFailure
    ELSE LET c == PyAt(s, i)
             b == IF c = "{" THEN balance + 1
                  ELSE IF c = "}" THEN balance - 1
                  ELSE balance
         IN  IF b = 0
             THEN [kind |-> "ok", content |-> PySlice(s, match_start, i), next |-> i + 1]
             ELSE BraceLoop(s, match_start, i + 1, b)

\* the matcher with `match_start = start_pos`: the content keeps its opening brace
find_balanced_braces_from_brace(s, start_pos) ==
    IF start_pos >= Len(s) THEN BraceFailure
    ELSE IF ~PyInRange(s, start_pos) THEN BraceIndexError
    ELSE IF PyAt(s, start_pos) # "{" THEN BraceFailure
    ELSE BraceLoop(s, start_pos, start_pos, 0)

\* the matcher returning the index of the closing brace: `i` for `i + 1`
find_balanced_braces_at_close(s, start_pos) ==
    IF start_pos >= Len(s) THEN BraceFailure
    ELSE IF ~PyInRange(s, start_pos) THEN BraceIndexError
    ELSE IF PyAt(s, start_pos) # "{" THEN BraceFailure
    ELSE LET r == BraceLoop(s, start_pos + 1, start_pos, 0)
         IN  IF r.kind = "ok" THEN [r EXCEPT !.next = r.next - 1] ELSE r

find_balanced_braces(s, start_pos) ==
    IF start_pos >= Len(s) THEN BraceFailure
    ELSE IF ~PyInRange(s, start_pos) THEN BraceIndexError
    ELSE IF PyAt(s, start_pos) # "{" THEN BraceFailure
    ELSE BraceLoop(s, start_pos + 1, start_pos, 0)

----------------------------------------------------------------------------
(* The command registry (commands.py) and the regular expression *)

\* COMMAND_MAP.keys(), in the order the alternation lists them
command_names == << <<"a">>, <<"r">> >>

\* COMMAND_MAP[name].num_args: "a" takes one argument, "r" takes two
num_args(name) == IF name = <<"r">> THEN 2 ELSE 1

\* COMMAND_MAP[name].accept(args): "a" and "r" both keep their first argument
accept(name, args) == args[1]

\* COMMAND_MAP[name].reject(args): "a" rejects to nothing, "r" to its second
\* argument
reject(name, args) == IF name = <<"r">> THEN args[2] ELSE <<>>

\* \s of the regular expression
IsSpace(c) == c \in {" ", "\n"}

\* the text s continues with the characters w at position p
StartsWithAt(s, p, w) ==
    /\ p + Len(w) <= Len(s)
    /\ \A k \in 1..Len(w) : PyAt(s, p + k - 1) = w[k]

\* the alternation (a|r) tried at position p: the index of the first
\* alternative that matches, 0 when none does
RECURSIVE MatchName(_, _, _)
MatchName(s, p, k) ==
    IF k > Len(command_names) THEN 0
    ELSE IF StartsWithAt(s, p, command_names[k]) THEN k
    ELSE MatchName(s, p, k + 1)

\* \s* : the position after the run of white space that starts at p
RECURSIVE SkipSpace(_, _)
SkipSpace(s, p) ==
    IF p < Len(s) /\ IsSpace(PyAt(s, p)) THEN SkipSpace(s, p + 1) ELSE p

\* .*?\] tried at position p: the position after the first "]" that only
\* characters other than a newline separate from p, -1 when there is none
RECURSIVE LazyClose(_, _)
LazyClose(s, p) ==
    IF p >= Len(s) THEN -1
    ELSE IF PyAt(s, p) = "]" THEN p + 1
    ELSE IF PyAt(s, p) = "\n" THEN -1
    ELSE LazyClose(s, p + 1)

\* the pattern without (\s*\[.*?\])*: no optional group is skipped
SkipOptionalNone(s, p) == p

\* (\s*\[.*?\])* tried at position p: the position after the last group
RECURSIVE SkipOptional(_, _)
SkipOptional(s, p) ==
    LET q == SkipSpace(s, p)
        e == IF q < Len(s) /\ PyAt(s, q) = "[" THEN LazyClose(s, q + 1) ELSE -1
    IN  IF e = -1 THEN p ELSE SkipOptional(s, e)

NoMatch == [found |-> FALSE, start |-> -1, end |-> -1, name |-> <<>>]

\* the pattern without its leading `\\`: a name matches wherever it stands
MatchAtNoEscape(s, i) ==
    LET k == MatchName(s, i, 1)
    IN  IF k = 0 THEN NoMatch
        ELSE [found |-> TRUE, start |-> i,
              end |-> SkipOptional(s, i + Len(command_names[k])),
              name |-> command_names[k]]

\* the regular expression tried at position i
MatchAt(s, i) ==
    IF PyAt(s, i) # "\\" THEN NoMatch
    ELSE LET k == MatchName(s, i + 1, 1)
         IN  IF k = 0 THEN NoMatch
             ELSE [found |-> TRUE, start |-> i,
                   end |-> SkipOptional(s, i + 1 + Len(command_names[k])),
                   name |-> command_names[k]]

\* command_regex.search(s) from position i on: the leftmost match
RECURSIVE SearchFrom(_, _)
SearchFrom(s, i) ==
    IF i >= Len(s) THEN NoMatch
    ELSE IF MatchAt(s, i).found THEN MatchAt(s, i)
    ELSE SearchFrom(s, i + 1)

\* command_regex.match in place of command_regex.search: position 0 only
search_as_match(s) == IF Len(s) > 0 THEN MatchAt(s, 0) ELSE NoMatch

\* self.command_regex.search(processed_text)
search(s) == SearchFrom(s, 0)

----------------------------------------------------------------------------
(* ChangeProcessor.process *)

\* the loop `for _ in range(command.num_args)`: n arguments still to find,
\* `args` found so far, current_pos the position to look at
RECURSIVE FindArguments(_, _, _, _)
FindArguments(s, current_pos, args, n) ==
    IF n = 0 THEN [current_pos |-> current_pos, args |-> args]
    ELSE LET r == find_balanced_braces(s, current_pos)
         IN  IF r.kind # "ok"
             THEN [current_pos |-> -1, args |-> args]
             ELSE FindArguments(s, r.next, Append(args, r.content), n - 1)

\* one pass of the loop body up to the decision: the match and its arguments
Scan(s) ==
    LET match == search(s)
    IN  IF ~match.found
        THEN [found |-> FALSE, start |-> -1, end |-> -1, name |-> <<>>,
              current_pos |-> -1, args |-> <<>>]
        ELSE LET f == FindArguments(s, match.end, <<>>, num_args(match.name))
             IN  [found |-> TRUE, start |-> match.start, end |-> match.end,
                  name |-> match.name, current_pos |-> f.current_pos,
                  args |-> f.args]

\* the splice that inserts and forgets to drop the command
SpliceInserts(s, start, replacement, command_end_pos) ==
    PySlice(s, 0, command_end_pos) \o replacement \o PyFrom(s, command_end_pos)

\* the splice resumed one character late: `processed_text[command_end_pos + 1:]`
SpliceOffByOne(s, start, replacement, command_end_pos) ==
    PySlice(s, 0, start) \o replacement \o PyFrom(s, command_end_pos + 1)

\* `processed_text[:match.start()] + replacement + processed_text[command_end_pos:]`
Splice(s, start, replacement, command_end_pos) ==
    PySlice(s, 0, start) \o replacement \o PyFrom(s, command_end_pos)

\* the recovery that deletes nothing
SkipNothing(s, start, end) == s

\* the deletion resumed one character late: `processed_text[match.end() + 1:]`
SkipOffByOne(s, start, end) == PySlice(s, 0, start) \o PyFrom(s, end + 1)

\* `processed_text[:match.start()] + processed_text[match.end():]`
Skip(s, start, end) == PySlice(s, 0, start) \o PyFrom(s, end)

\* keep that copies the arguments only: `processed_text[match.end():command_end_pos]`
ReplacementKeepsArguments(s, m, action) ==
    IF action = "a" THEN accept(m.name, m.args)
    ELSE IF action = "r" THEN reject(m.name, m.args)
    ELSE IF action = "k" THEN PySlice(s, m.end, m.current_pos)
    ELSE <<>>

\* a final `else` that keeps the original text for an unknown decision
ReplacementUnknownKeeps(s, m, action) ==
    IF action = "a" THEN accept(m.name, m.args)
    ELSE IF action = "r" THEN reject(m.name, m.args)
    ELSE PySlice(s, m.start, m.current_pos)

\* the replacement chosen for a decision `action`
Replacement(s, m, action) ==
    IF action = "a" THEN accept(m.name, m.args)
    ELSE IF action = "r" THEN reject(m.name, m.args)
    ELSE IF action = "k" THEN PySlice(s, m.start, m.current_pos)
    ELSE <<>>

NoIteration ==
    [kind |-> "none", before |-> <<>>, start |-> -1, end |-> -1,
     command_end_pos |-> -1, name |-> <<>>, args |-> <<>>, calls |-> 0]

\* the pieces an input text is put together from
Pieces ==
    { <<"\\", "a">>, <<"\\", "r">>, <<"\\">>, <<"a">>, <<" ">>,
      <<"{">>, <<"}">>, <<"{", "}">>, <<"{", "a", "}">>, <<"[">>, <<"]">> }

RECURSIVE Concat(_)
Concat(ps) == IF ps = <<>> THEN <<>> ELSE Head(ps) \o Concat(Tail(ps))

Texts == { Concat(ps) : ps \in UNION { [1..n -> Pieces] : n \in 0..MaxPieces } }

BracesIdle ==
    /\ arg_text = <<>>
    /\ arg_pos = 0
    /\ result = BraceFailure
    /\ phase = "idle"

ProcessFresh ==
    /\ iters = 0
    /\ calls = 0
    /\ warnings = 0
    /\ last = NoIteration
    /\ kept = {}

\* process(text) is called: `processed_text = text`
Init ==
    /\ text \in Texts
    /\ processed_text = text
    /\ pc = "loop"
    /\ ProcessFresh
    /\ BracesIdle

\* `if not match: break` and `return processed_text`
Return ==
    /\ pc = "loop"
    /\ ~Scan(processed_text).found
    /\ pc' = "returned"
    /\ UNCHANGED <<text, processed_text, iters, calls, warnings, last, kept>>
    /\ UNCHANGED bracesVars

\* an iteration whose argument parsing failed: `if current_pos == -1`
Malformed ==
    LET m == Scan(processed_text)
    IN  /\ pc = "loop"
        /\ iters < MaxIters
        /\ m.found
        /\ m.current_pos = -1
        /\ processed_text' = Skip(processed_text, m.start, m.end)
        /\ warnings' = warnings + 1
        /\ iters' = iters + 1
        /\ last' = [kind |-> "malformed", before |-> processed_text,
                    start |-> m.start, end |-> m.end, command_end_pos |-> -1,
                    name |-> m.name, args |-> m.args, calls |-> calls]
        /\ UNCHANGED <<text, pc, calls, kept>>
        /\ UNCHANGED bracesVars

\* an iteration that parsed its arguments and got `action` from the handler
Decide(action) ==
    LET m == Scan(processed_text)
    IN  /\ pc = "loop"
        /\ iters < MaxIters
        /\ m.found
        /\ m.current_pos # -1
        /\ calls' = calls + 1
        /\ iters' = iters + 1
        /\ processed_text' = Splice(processed_text, m.start,
                                    Replacement(processed_text, m, action),
                                    m.current_pos)
        /\ last' = [kind |-> action, before |-> processed_text,
                    start |-> m.start, end |-> m.end,
                    command_end_pos |-> m.current_pos,
                    name |-> m.name, args |-> m.args, calls |-> calls]
        /\ kept' = IF action = "k"
                   THEN kept \cup {<<processed_text, m.start>>}
                   ELSE kept
        /\ UNCHANGED <<text, pc, warnings>>
        /\ UNCHANGED bracesVars

Accept == Decide("a")
Reject == Decide("r")
Keep == Decide("k")

Next == Return \/ Malformed \/ Accept \/ Reject \/ Keep

Spec == Init /\ [][Next]_vars

----------------------------------------------------------------------------
(* process on texts with optional bracket groups, white space and newlines *)

OptionalPieces ==
    { <<"\\", "a">>, <<"\\", "r">>, <<"a">>, <<" ">>, <<"\n">>,
      <<"[">>, <<"]">>, <<"[", "a", "]">>, <<"{", "}">>, <<"{", "a", "}">> }

OptionalTexts ==
    { Concat(ps) : ps \in UNION { [1..n -> OptionalPieces] : n \in 0..MaxPieces } }

InitOptional ==
    /\ text \in OptionalTexts
    /\ processed_text = text
    /\ pc = "loop"
    /\ ProcessFresh
    /\ BracesIdle

SpecOptional == InitOptional /\ [][Next]_vars

----------------------------------------------------------------------------
(* A handler that breaks its contract or fails *)

\* get_decision_for_change returns a value other than 'a', 'r', 'k'
Unknown == Decide("x")

\* the exception caught and the loop body carried on with `replacement = ""`
AfterRaiseSwallowed(s, m) ==
    [pc |-> "loop", processed_text |-> Splice(s, m.start, <<>>, m.current_pos)]

\* get_decision_for_change raises: nothing in process catches it, so the
\* call leaves process at line 74 and the buffer s is not assigned again
AfterRaise(s, m) == [pc |-> "raised", processed_text |-> s]

\* an iteration that parsed its arguments and whose handler call raised
Abort ==
    LET m == Scan(processed_text)
    IN  /\ pc = "loop"
        /\ iters < MaxIters
        /\ m.found
        /\ m.current_pos # -1
        /\ calls' = calls + 1
        /\ iters' = iters + 1
        /\ pc' = AfterRaise(processed_text, m).pc
        /\ processed_text' = AfterRaise(processed_text, m).processed_text
        /\ last' = [kind |-> "abort", before |-> processed_text,
                    start |-> m.start, end |-> m.end,
                    command_end_pos |-> m.current_pos,
                    name |-> m.name, args |-> m.args, calls |-> calls]
        /\ UNCHANGED <<text, warnings, kept>>
        /\ UNCHANGED bracesVars

NextHandler == Next \/ Unknown \/ Abort

SpecHandler == Init /\ [][NextHandler]_vars

----------------------------------------------------------------------------
(* _find_balanced_braces applied to every small text and position *)

BraceAlphabet == {"{", "}", "a"}

BraceTexts == UNION { [1..n -> BraceAlphabet] : n \in 0..MaxBraceLen }

BracePositions == (0 - MaxBraceLen - 1)..(MaxBraceLen + 1)

InitBraces ==
    /\ text = <<>>
    /\ processed_text = <<>>
    /\ pc = "idle"
    /\ ProcessFresh
    /\ arg_text \in BraceTexts
    /\ arg_pos \in BracePositions
    /\ result = BraceFailure
    /\ phase = "called"

\* the call returns a pair
ReturnBraces ==
    /\ phase = "called"
    /\ find_balanced_braces(arg_text, arg_pos).kind # "IndexError"
    /\ result' = find_balanced_braces(arg_text, arg_pos)
    /\ phase' = "returned"
    /\ UNCHANGED <<arg_text, arg_pos>>
    /\ UNCHANGED processVars

\* the call raises IndexError at `text[start_pos]`
RaiseBraces ==
    /\ phase = "called"
    /\ find_balanced_braces(arg_text, arg_pos).kind = "IndexError"
    /\ result' = find_balanced_braces(arg_text, arg_pos)
    /\ phase' = "raised"
    /\ UNCHANGED <<arg_text, arg_pos>>
    /\ UNCHANGED processVars

NextBraces == ReturnBraces \/ RaiseBraces

SpecBraces == InitBraces /\ [][NextBraces]_vars

----------------------------------------------------------------------------
(* Properties of _find_balanced_braces *)

\* opening minus closing braces among s[p..j] (0-based, both ends included)
Depth(s, p, j) ==
    Cardinality({k \in p..j : s[k + 1] = "{"})
        - Cardinality({k \in p..j : s[k + 1] = "}"})

\* the indices after p at which the nesting that opens at p is back to zero
ClosePositions(s, p) == {j \in (p + 1)..(Len(s) - 1) : Depth(s, p, j) = 0}

FirstClose(s, p) ==
    CHOOSE j \in ClosePositions(s, p) : \A k \in ClosePositions(s, p) : j <= k

OpensAt(s, p) == 0 <= p /\ p < Len(s) /\ s[p + 1] = "{"

\* C5: when s[p] is an opening brace with a nesting-balanced close at j (the
\* first index after p where the nesting counter is back to zero), the
\* matcher returns the characters strictly between p and j and the position
\* j + 1, whatever the nesting depth, for empty groups and for a group
\* followed by a sibling group.
BalanceCorrect ==
    (/\ phase = "returned"
     /\ OpensAt(arg_text, arg_pos)
     /\ ClosePositions(arg_text, arg_pos) # {})
    => LET j == FirstClose(arg_text, arg_pos)
       IN  /\ result.kind = "ok"
           /\ result.content = SubSeq(arg_text, arg_pos + 2, j)
           /\ result.next = j + 1

\* a nested group with an empty group inside and a sibling brace after it
BalanceCorrectWitness ==
    /\ phase = "returned"
    /\ arg_text = <<"{", "{", "}", "}", "{">>
    /\ arg_pos = 0
    /\ result = [kind |-> "ok", content |-> <<"{", "}">>, next |-> 4]

\* C10: the matcher returns Failure exactly when pos is out of range, or the
\* character at pos is not an opening brace, or the nesting counter never
\* returns to zero before the text ends.
FailureExactly ==
    phase = "returned"
    => (result.kind = "None"
        <=> (\/ ~OpensAt(arg_text, arg_pos)
             \/ ClosePositions(arg_text, arg_pos) = {}))

\* the same for the positions 0 <= pos, the only ones process passes: there
\* the call always returns, and returns Failure in exactly the three cases
FailureExactlyFromZero ==
    (phase \in {"returned", "raised"} /\ arg_pos >= 0)
    => ((phase = "returned" /\ result.kind = "None")
        <=> (\/ ~OpensAt(arg_text, arg_pos)
             \/ ClosePositions(arg_text, arg_pos) = {}))

----------------------------------------------------------------------------
(* Properties of ChangeProcessor.process *)

\* the positions of s where the escape marker is immediately followed by a
\* registered command name
Occurrences(s) ==
    {i \in 0..(Len(s) - 1) :
        /\ s[i + 1] = "\\"
        /\ \E k \in 1..Len(command_names) :
              /\ i + 1 + Len(command_names[k]) <= Len(s)
              /\ SubSeq(s, i + 2, i + 1 + Len(command_names[k])) = command_names[k]}

\* the brace groups {arg1}{arg2}... written out
RECURSIVE Braced(_)
Braced(args) ==
    IF args = <<>> THEN <<>>
    ELSE <<"{">> \o Head(args) \o <<"}">> \o Braced(Tail(args))

\* the text the regular expression matched in the latest iteration
MatchText(l) == SubSeq(l.before, l.start + 1, l.end)

\* the optional groups among it: what follows the escape marker and the name
OptionalText(l) == SubSeq(l.before, l.start + 2 + Len(l.name), l.end)

\* the buffer before the match and after position p, around the latest match
TextBefore(l) == SubSeq(l.before, 1, l.start)
TextAfter(l, p) == SubSeq(l.before, p + 1, Len(l.before))

\* the latest iteration looked at the leftmost occurrence of its buffer
Leftmost(l) ==
    /\ l.start \in Occurrences(l.before)
    /\ \A i \in Occurrences(l.before) : l.start <= i
    /\ SubSeq(l.before, l.start + 1, l.start + 1 + Len(l.name)) = <<"\\">> \o l.name

\* C1: the scan loop runs at most K iterations, K the number of occurrences
\* of recognized command names in the input text.
TerminatesWithinK == iters <= Cardinality(Occurrences(text))

\* C2: an occurrence that was decided keep is never offered to the decision
\* source again.
KeptNeverReoffered ==
    [][calls' > calls => <<last'.before, last'.start>> \notin kept]_vars

\* C3: a text with one command, decided keep: the decision is asked once and
\* the buffer stays the input (nothing is asked or replaced a second time).
KeepStable ==
    (/\ Cardinality(Occurrences(text)) = 1
     /\ \E i \in Occurrences(text) : <<text, i>> \in kept)
    => (calls = 1 /\ processed_text = text)

\* C4: after an accept (reject) of a fully parsed occurrence the buffer is
\* the text before the match start, the accept (reject) transform of the
\* arguments, and the text after the closing brace of the last argument;
\* the replaced span is the matched text followed by the N brace groups.
SpliceExact ==
    last.kind \in {"a", "r"}
    => /\ Leftmost(last)
       /\ Len(last.args) = num_args(last.name)
       /\ SubSeq(last.before, last.start + 1, last.command_end_pos)
              = MatchText(last) \o Braced(last.args)
       /\ processed_text
              = TextBefore(last)
                \o (IF last.kind = "a" THEN accept(last.name, last.args)
                    ELSE reject(last.name, last.args))
                \o TextAfter(last, last.command_end_pos)

\* ` \a{a} ` accepted gives ` a `: both surrounding spaces are still there
SpliceExactWitness ==
    /\ last.kind = "a"
    /\ last.before = <<" ", "\\", "a", "{", "a", "}", " ">>
    /\ processed_text = <<" ", "a", " ">>

\* C6 as stated: a malformed occurrence loses exactly the escape marker and
\* the command name, every other character stays, no decision is asked.
MalformedDeletesNameOnly ==
    last.kind = "malformed"
    => /\ processed_text
              = TextBefore(last) \o TextAfter(last, last.start + 1 + Len(last.name))
       /\ calls = last.calls

\* C6 as amended: a malformed occurrence loses exactly the text the regular
\* expression matched (escape marker, command name and the optional bracket
\* groups skipped after it); every other character, the argument groups
\* already consumed included, stays in place; no decision is asked.
MalformedDeletesMatch ==
    last.kind = "malformed"
    => /\ Leftmost(last)
       /\ Len(last.args) < num_args(last.name)
       /\ MatchText(last) = <<"\\">> \o last.name \o OptionalText(last)
       /\ \/ OptionalText(last) = <<>>
          \/ /\ OptionalText(last)[Len(OptionalText(last))] = "]"
             /\ \E k \in 1..Len(OptionalText(last)) :
                   /\ OptionalText(last)[k] = "["
                   /\ \A j \in 1..(k - 1) : IsSpace(OptionalText(last)[j])
       /\ SubSeq(last.before, last.end + 1, last.end + Len(Braced(last.args)))
              = Braced(last.args)
       /\ processed_text = TextBefore(last) \o TextAfter(last, last.end)
       /\ calls = last.calls

\* `\r[]{a}`: the second argument is missing; `\r[]` goes, `{a}` stays
MalformedDeletesMatchWitness ==
    /\ last.kind = "malformed"
    /\ last.before = <<"\\", "r", "[", "]", "{", "a", "}">>
    /\ last.args = << <<"a">> >>
    /\ processed_text = <<"{", "a", "}">>

\* C7: the returned text holds no occurrence of a recognized command (the
\* loop is left only when the search finds none, so not even a kept one).
NoCommandLeft == pc = "returned" => Occurrences(processed_text) = {}

\* a return after a malformed occurrence and a decided one
NoCommandLeftWitness ==
    /\ pc = "returned"
    /\ warnings >= 1
    /\ calls >= 1
    /\ Occurrences(text) # {}

\* the part of C8 about the arguments: at every call the command and the
\* arguments are those of the leftmost occurrence of the current buffer, as
\* many as the command declares, each the content of its own brace group
DecisionArguments ==
    last.kind \in {"a", "r", "k"}
    => /\ Leftmost(last)
       /\ Len(last.args) = num_args(last.name)
       /\ SubSeq(last.before, last.start + 1, last.command_end_pos)
              = MatchText(last) \o Braced(last.args)
       /\ calls = last.calls + 1

\* C8: the decision source is called once per resolvable occurrence, each
\* call with the command and the arguments of the leftmost occurrence of
\* the current buffer, as many as the command declares.
DecisionOncePerOccurrence ==
    [][calls' > calls
       => /\ Leftmost(last')
          /\ Len(last'.args) = num_args(last'.name)
          /\ SubSeq(last'.before, last'.start + 1, last'.command_end_pos)
                 = MatchText(last') \o Braced(last'.args)
          /\ \A o \in kept : o # <<last'.before, last'.start>>]_vars

\* C9: a text without any recognized command is returned unchanged, no
\* decision is asked and no diagnostic is printed.
CleanUnchanged ==
    Occurrences(text) = {}
    => /\ processed_text = text
       /\ iters = 0
       /\ calls = 0
       /\ warnings = 0
       /\ pc = "loop" => ~search(processed_text).found

\* `\{a}a`: an escape marker and the letters of a name, but no command
CleanUnchangedWitness ==
    /\ pc = "returned"
    /\ text = <<"\\", "{", "a", "}", "a">>
    /\ processed_text = text

----------------------------------------------------------------------------
(* The number of unresolved commands across one iteration *)

\* the replacement the latest accept / reject iteration spliced in
Spliced(l) ==
    IF l.kind = "a" THEN accept(l.name, l.args)
    ELSE IF l.kind = "r" THEN reject(l.name, l.args)
    ELSE <<>>

\* occurrences of the old buffer inside the resolved command, its own
\* escape marker apart, that are not inside the replacement: the commands
\* of the optional groups and of the arguments the transform did not return
DroppedCommands(l) ==
    Cardinality({i \in Occurrences(l.before) :
                    l.start < i /\ i < l.command_end_pos})
        - Cardinality(Occurrences(Spliced(l)))

\* occurrences of the new buffer that begin before the end of the
\* replacement without lying inside the replacement: text on the two sides
\* of a splice boundary that joins into escape marker + name
JoinedCommands(l, new) ==
    {i \in Occurrences(new) :
        /\ i < l.start + Len(Spliced(l))
        /\ ~(i >= l.start /\ (i - l.start) \in Occurrences(Spliced(l)))}

\* C11 as stated: every accept / reject iteration lowers the number of
\* unresolved commands of the buffer by exactly one.
ReducesByExactlyOne ==
    last.kind \in {"a", "r"}
    => Cardinality(Occurrences(processed_text))
           = Cardinality(Occurrences(last.before)) - 1

\* C11 as amended: an accept / reject iteration lowers the number of
\* unresolved commands by exactly one when the text it drops holds no
\* command and the replacement joins with the text around it into no new
\* command; commands inside the returned argument stay and are counted.
ReducesByOneUnlessDroppedOrJoined ==
    (/\ last.kind \in {"a", "r"}
     /\ DroppedCommands(last) = 0
     /\ JoinedCommands(last, processed_text) = {})
    => Cardinality(Occurrences(processed_text))
           = Cardinality(Occurrences(last.before)) - 1

\* `\a{\a}` accepted: the argument holds a command, which stays: 2 -> 1
ReducesByOneWitness ==
    /\ last.kind = "a"
    /\ last.before = <<"\\", "a", "{", "\\", "a", "}">>
    /\ processed_text = <<"\\", "a">>
    /\ DroppedCommands(last) = 0
    /\ JoinedCommands(last, processed_text) = {}

\* the text around the deleted match joins into a new command
JoinedAfterSkip(l, new) == {i \in Occurrences(new) : i < l.start}

\* C12 as stated: every malformed-recovery iteration leaves strictly fewer
\* command-name occurrences in the buffer than before.
MalformedStrictlyFewer ==
    last.kind = "malformed"
    => Cardinality(Occurrences(processed_text))
           < Cardinality(Occurrences(last.before))

\* C12 as amended: a malformed-recovery iteration removes the matched token
\* and never leaves more occurrences than before; it leaves strictly fewer
\* unless the characters on either side of the deleted token join into a
\* new command (then the number can stay the same).
MalformedFewerUnlessJoined ==
    last.kind = "malformed"
    => /\ Len(processed_text) = Len(last.before) - (last.end - last.start)
       /\ Cardinality(Occurrences(processed_text))
              <= Cardinality(Occurrences(last.before))
       /\ JoinedAfterSkip(last, processed_text) = {}
              => Cardinality(Occurrences(processed_text))
                     < Cardinality(Occurrences(last.before))
       /\ Cardinality(JoinedAfterSkip(last, processed_text)) <= 1

\* `\a{a` (the brace never closes): `\a` goes, no occurrence is left
MalformedFewerWitness ==
    /\ last.kind = "malformed"
    /\ last.before = <<"\\", "a", "{", "a">>
    /\ processed_text = <<"{", "a">>
    /\ Occurrences(processed_text) = {}

\* C13: a keep iteration leaves the buffer unchanged: the replacement is
\* the original text from the match start to the end of the last argument
\* (escape marker, name, skipped optional groups, braces and arguments).
KeepUnchanged ==
    last.kind = "k"
    => /\ processed_text = last.before
       /\ SubSeq(last.before, last.start + 1, last.command_end_pos)
              = <<"\\">> \o last.name \o OptionalText(last) \o Braced(last.args)
       /\ Len(last.args) = num_args(last.name)

\* `\a[]{a}` kept
KeepUnchangedWitness ==
    /\ last.kind = "k"
    /\ last.before = <<"\\", "a", "[", "]", "{", "a", "}">>
    /\ processed_text = last.before

----------------------------------------------------------------------------
(* Properties of process with a handler that breaks its contract or fails *)

\* C14: a decision outside accept / reject / keep removes the span from the
\* match start to the end of the last argument and puts nothing in its
\* place; the text before and after the span is unchanged and the loop
\* goes on.
UnknownRemoves ==
    last.kind = "x"
    => /\ Leftmost(last)
       /\ SubSeq(last.before, last.start + 1, last.command_end_pos)
              = MatchText(last) \o Braced(last.args)
       /\ processed_text = TextBefore(last) \o TextAfter(last, last.command_end_pos)
       /\ pc \in {"loop", "returned"}
       /\ calls = last.calls + 1

\* `a\a{a}a` with an unknown decision gives `aa`
UnknownRemovesWitness ==
    /\ last.kind = "x"
    /\ last.before = <<"a", "\\", "a", "{", "a", "}", "a">>
    /\ processed_text = <<"a", "a">>

\* C15: when the decision source raises, process stops there: the buffer is
\* the one the call was made with, no later call or iteration happens, and
\* process does not return a text.
HaltsOnAbort ==
    last.kind = "abort"
    => /\ pc = "raised"
       /\ processed_text = last.before
       /\ calls = last.calls + 1
       /\ ~ENABLED NextHandler

\* the second call raises, after a first occurrence was rejected
HaltsOnAbortWitness ==
    /\ pc = "raised"
    /\ last.kind = "abort"
    /\ calls = 2
    /\ text = <<"\\", "a", "{", "a", "}", "\\", "a", "{", "}">>
    /\ processed_text = <<"\\", "a", "{", "}">>

\* C17: without a keep answer every iteration (accept, reject, unknown
\* decision, malformed recovery) makes the buffer strictly shorter, so the
\* iterations made plus the length left never exceed the length of the
\* input: at most len(text) iterations.
ShrinksWithoutKeep ==
    /\ last.kind \in {"a", "r", "x", "malformed"}
           => Len(processed_text) < Len(last.before)
    /\ (kept = {} /\ pc # "raised")
           => /\ iters + Len(processed_text) <= Len(text)
              /\ iters <= Len(text)

\* `\a\r{}{a}`: a malformed recovery, then an unknown decision, then the
\* return; 2 iterations for 9 characters
ShrinksWithoutKeepWitness ==
    /\ pc = "returned"
    /\ kept = {}
    /\ text = <<"\\", "a", "\\", "r", "{", "}", "{", "a", "}">>
    /\ warnings = 1
    /\ last.kind = "x"
    /\ iters = 2
    /\ processed_text = <<>>

----------------------------------------------------------------------------
(* Optional groups *)

\* w is one optional group as the pattern \s*\[.*?\] takes it: white space,
\* an opening bracket, characters other than a closing bracket and a
\* newline, a closing bracket
IsGroup(w) ==
    /\ Len(w) >= 2
    /\ w[Len(w)] = "]"
    /\ \E j \in 1..(Len(w) - 1) :
          /\ w[j] = "["
          /\ \A i \in 1..(j - 1) : w[i] \in {" ", "\n"}
          /\ \A i \in (j + 1)..(Len(w) - 1) : w[i] \notin {"]", "\n"}

\* w is a run of optional groups
RECURSIVE IsGroups(_)
IsGroups(w) ==
    \/ w = <<>>
    \/ \E k \in 1..Len(w) :
          /\ IsGroup(SubSeq(w, 1, k))
          /\ IsGroups(SubSeq(w, k + 1, Len(w)))

----------------------------------------------------------------------------
(* The shape of a successful result of _find_balanced_braces *)

\* no prefix of w closes more braces than it opens, and w closes all it opens
Balanced(w) ==
    /\ \A k \in 1..Len(w) :
          Cardinality({i \in 1..k : w[i] = "{"})
              >= Cardinality({i \in 1..k : w[i] = "}"})
    /\ Cardinality({i \in 1..Len(w) : w[i] = "{"})
           = Cardinality({i \in 1..Len(w) : w[i] = "}"})

ResultShape(s, pos, r) ==
    /\ pos + 2 <= r.next
    /\ r.next <= Len(s)
    /\ s[r.next] = "}"
    /\ r.content = SubSeq(s, pos + 2, r.next - 1)
    /\ Balanced(r.content)

\* C18: a call with 0 <= pos < len(text) that succeeds returns an end
\* position e with pos + 2 <= e <= len(text) and text[e - 1] a closing
\* brace, and the content text[pos + 1 .. e - 2], which is brace-balanced
\* with no prefix closing more than it opens; the text is left as it was.
SuccessShape ==
    [][(/\ phase' = "returned"
        /\ phase = "called"
        /\ result'.kind = "ok"
        /\ 0 <= arg_pos
        /\ arg_pos < Len(arg_text))
       => /\ arg_text' = arg_text
          /\ arg_pos' = arg_pos
          /\ ResultShape(arg_text, arg_pos, result')]_vars

\* `a{{}}` from position 1: content `{}`, end position 5 = len(text)
SuccessShapeWitness ==
    /\ phase = "returned"
    /\ arg_text = <<"a", "{", "{", "}", "}">>
    /\ arg_pos = 1
    /\ result = [kind |-> "ok", content |-> <<"{", "}">>, next |-> 5]

====
